---- MODULE Spec2Model ----
(***************************************************************************)
(* repo_miner: fetching and normalising the commits and issues of a        *)
(* GitHub repository (fetch_commits, fetch_issues) and summarising two     *)
(* such tables (merge_and_summarize).                                      *)
(*                                                                         *)
(* Values.  Python values of different types meet in one column or one     *)
(* variable, so every nullable value is a record whose field names tell    *)
(* its type:                                                               *)
(*   None / NaN / NaT      [none |-> TRUE]                                 *)
(*   a str                 [str |-> "text"]                                *)
(*   an int                [int |-> n]                                     *)
(*   a datetime            [hours |-> h]   (hours since a fixed instant)   *)
(*   an ISO-8601 string    [iso |-> h]     (the rendering of datetime h)   *)
(*   a float quotient      [num |-> a, den |-> b], in lowest terms         *)
(*   a float NaN           [nan |-> TRUE]                                  *)
(* A table (a dict of lists, a DataFrame) is a record of sequences, one    *)
(* per column.                                                             *)
(***************************************************************************)
EXTENDS Integers, Sequences, FiniteSets, TLC

VARIABLES
    GITHUB_TOKEN,   \* os.environ.get("GITHUB_TOKEN") at the time of the call
    repo,           \* the repository behind get_repo: [_commits, _issues]
    called,         \* the call made: function and arguments
    returned,       \* what the call returned or raised
    commits_df,     \* the commit table handed to merge_and_summarize
    issues_df,      \* the issue table handed to merge_and_summarize
    stdout          \* the lines merge_and_summarize printed

vars == <<GITHUB_TOKEN, repo, called, returned, commits_df, issues_df, stdout>>

---------------------------------------------------------------------------
(* Bounds *)

MaxCommits == 3       \* commits in the repository
MaxIssues == 3        \* raw issues (pull requests included) in the repository
MaxArg == 3           \* largest max_commits / max_issues argument tried
MaxCommitRows == 7    \* rows of a commit table handed to the summarizer
MaxIssueRows == 2     \* rows of an issue table handed to the summarizer

---------------------------------------------------------------------------
(* Values *)

None == [none |-> TRUE]
Str(s) == [str |-> s]
Int_(n) == [int |-> n]
DateTime(h) == [hours |-> h]

HoursPerDay == 24

Min(a, b) == IF a <= b THEN a ELSE b
Max(a, b) == IF a >= b THEN a ELSE b

\* datetime.isoformat(): the ISO-8601 string of a datetime.
isoformat(d) == [iso |-> d.hours]

\* A timedelta whose days round up instead of down.
timedelta_ceil(closed, created) ==
    LET h == closed.hours - created.hours
    IN  [days |-> -((-h) \div HoursPerDay),
         seconds |-> 0]

\* datetime - datetime: a timedelta, which Python keeps normalised with
\* 0 <= seconds < 86400, so that days is the floor of the difference.
timedelta(closed, created) ==
    LET h == closed.hours - created.hours
    IN  [days |-> h \div HoursPerDay,
         seconds |-> (h % HoursPerDay) * 3600]

\* bool(x) of a value that is None or a datetime: a datetime is always true.
truthy(x) == x # None

\* seq[:stop] of a Python list: a negative stop counts from the end.
slice(seq, stop) ==
    IF stop >= 0
    THEN SubSeq(seq, 1, Min(stop, Len(seq)))
    ELSE SubSeq(seq, 1, Max(Len(seq) + stop, 0))

---------------------------------------------------------------------------
(* Commits: _get_commits_from_repo, _conv_commits_to_record, fetch_commits *)

_get_commits_from_repo(r, max_commits) ==
    IF max_commits = None
    THEN r._commits
    ELSE slice(r._commits, max_commits.int)

\* A merge that puts the commit in front of every column.
commit_merge_prepend(raw_dict, commit) ==
    [sha     |-> <<commit.sha>> \o raw_dict.sha,
     author  |-> <<commit.commit.author.name>> \o raw_dict.author,
     email   |-> <<commit.commit.author.email>> \o raw_dict.email,
     date    |-> <<isoformat(commit.commit.author.date)>> \o raw_dict.date,
     message |-> <<commit.commit.message>> \o raw_dict.message]

\* merge of _conv_commits_to_record: appends one commit to every column.
commit_merge(raw_dict, commit) ==
    [sha     |-> Append(raw_dict.sha, commit.sha),
     author  |-> Append(raw_dict.author, commit.commit.author.name),
     email   |-> Append(raw_dict.email, commit.commit.author.email),
     date    |-> Append(raw_dict.date, isoformat(commit.commit.author.date)),
     message |-> Append(raw_dict.message, commit.commit.message)]

EmptyCommitRecords ==
    [sha |-> <<>>, author |-> <<>>, email |-> <<>>, date |-> <<>>,
     message |-> <<>>]

RECURSIVE reduce_commits(_, _)
reduce_commits(commits, raw_dict) ==
    IF commits = <<>>
    THEN raw_dict
    ELSE reduce_commits(Tail(commits), commit_merge(raw_dict, Head(commits)))

_conv_commits_to_record(commits) == reduce_commits(commits, EmptyCommitRecords)

\* The repositories and arguments tried.
CommitAuthors ==
    {[name |-> Str("Alice"), email |-> Str("a@example.com")],
     [name |-> Str("Bob"), email |-> Str("b@example.com")],
     [name |-> Str(""), email |-> Str("")]}
CommitDates == {DateTime(0), DateTime(-HoursPerDay)}
CommitMessages == {Str("Initial commit\nDetails"), Str("Bug fix")}
MaxArgs == {None} \cup {Int_(m) : m \in (-1)..MaxArg}
Tokens == {None, Str("fake-token")}

DummyCommit(sha, a, date, message) ==
    [sha |-> sha,
     commit |-> [author |-> [name |-> a.name, email |-> a.email, date |-> date],
                 message |-> message]]

\* The repository gains a commit (shas are unique: "sha1", "sha2", ...).
push_commit ==
    /\ called = None
    /\ Len(repo._commits) < MaxCommits
    /\ \E a \in CommitAuthors, d \in CommitDates, m \in CommitMessages :
         repo' = [repo EXCEPT !._commits =
                    Append(@, DummyCommit(Str("sha" \o ToString(Len(@) + 1)),
                                          a, d, m))]
    /\ UNCHANGED <<GITHUB_TOKEN, called, returned, commits_df, issues_df, stdout>>

fetch_commits ==
    /\ called = None
    /\ \E token \in Tokens, max_commits \in MaxArgs :
         /\ GITHUB_TOKEN' = token
         /\ called' = [fn |-> "fetch_commits", max |-> max_commits]
         /\ returned' =
              IF token = None
              THEN [raised |-> "KeyError"]
              ELSE [df |-> _conv_commits_to_record(
                              _get_commits_from_repo(repo, max_commits))]
    /\ UNCHANGED <<repo, commits_df, issues_df, stdout>>

---------------------------------------------------------------------------
(* Issues: _get_issues_from_repo, _conv_issues_to_record, fetch_issues *)

\* get_issues(state=state) of the repository: the state filter is the
\* collaborator's (DummyRepo.get_issues in the tests).
get_issues(r, state) ==
    IF state = "all"
    THEN r._issues
    ELSE SelectSeq(r._issues, LAMBDA i : i.state = Str(state))

\* A cap that counts only the items without a pull-request marker.
slice_after_filter(r, state, stop) ==
    LET RECURSIVE take(_, _)
        take(seq, k) ==
            IF seq = <<>> \/ k <= 0 THEN <<>>
            ELSE IF Head(seq).pull_request # None
                 THEN <<Head(seq)>> \o take(Tail(seq), k)
                 ELSE <<Head(seq)>> \o take(Tail(seq), k - 1)
    IN  IF stop >= 0 THEN take(get_issues(r, state), stop)
        ELSE slice(get_issues(r, state), stop)

\* get_issues(state=state)[:max_issues]
slice_issues(r, state, stop) == slice(get_issues(r, state), stop)

_get_issues_from_repo(r, state, max_issues) ==
    IF max_issues = None
    THEN get_issues(r, state)
    ELSE slice_issues(r, state, max_issues.int)

\* hasattr(issue, "pull_request") and issue.pull_request is not None
is_pull_request(issue) ==
    "pull_request" \in DOMAIN issue /\ issue.pull_request # None

\* A duration that runs to the current time for an issue not closed.
open_duration_from_now(issue) ==
    IF issue.closed_at # None
    THEN Int_(timedelta(issue.closed_at, issue.created_at).days)
    ELSE Int_(timedelta(DateTime(10 * HoursPerDay), issue.created_at).days)

\* open_duration_days of merge: None unless closed_at is set.
open_duration(issue) ==
    IF issue.closed_at # None
    THEN Int_(timedelta(issue.closed_at, issue.created_at).days)
    ELSE None

\* A merge that appends pull requests too.
issue_merge_keep_prs(raw_dict, issue) ==
    [id         |-> Append(raw_dict.id, issue.id),
     number     |-> Append(raw_dict.number, issue.number),
     title      |-> Append(raw_dict.title, issue.title),
     user       |-> Append(raw_dict.user, issue.user.login),
     state      |-> Append(raw_dict.state, issue.state),
     created_at |-> Append(raw_dict.created_at, isoformat(issue.created_at)),
     closed_at  |-> Append(raw_dict.closed_at,
                           IF truthy(issue.closed_at)
                           THEN isoformat(issue.closed_at) ELSE None),
     comments   |-> Append(raw_dict.comments, issue.comments),
     open_duration_days |->
         Append(raw_dict.open_duration_days, open_duration(issue))]

\* merge of _conv_issues_to_record: skips a pull request, appends an issue.
issue_merge(raw_dict, issue) ==
    IF is_pull_request(issue)
    THEN raw_dict
    ELSE [id         |-> Append(raw_dict.id, issue.id),
          number     |-> Append(raw_dict.number, issue.number),
          title      |-> Append(raw_dict.title, issue.title),
          user       |-> Append(raw_dict.user, issue.user.login),
          state      |-> Append(raw_dict.state, issue.state),
          created_at |-> Append(raw_dict.created_at,
                                isoformat(issue.created_at)),
          closed_at  |-> Append(raw_dict.closed_at,
                                IF truthy(issue.closed_at)
                                THEN isoformat(issue.closed_at) ELSE None),
          comments   |-> Append(raw_dict.comments, issue.comments),
          open_duration_days |->
              Append(raw_dict.open_duration_days, open_duration(issue))]

EmptyIssueRecords ==
    [id |-> <<>>, number |-> <<>>, title |-> <<>>, user |-> <<>>,
     state |-> <<>>, created_at |-> <<>>, closed_at |-> <<>>,
     comments |-> <<>>, open_duration_days |-> <<>>]

RECURSIVE reduce_issues(_, _)
reduce_issues(issues, raw_dict) ==
    IF issues = <<>>
    THEN raw_dict
    ELSE reduce_issues(Tail(issues), issue_merge(raw_dict, Head(issues)))

_conv_issues_to_record(issues) == reduce_issues(issues, EmptyIssueRecords)

\* The raw issues tried: created at hour 1, and closed never, 1 hour
\* before, exactly 7 days after or 7 days and 1 hour after.
IssueCreated == DateTime(1)
IssueClosed ==
    {None, DateTime(0), DateTime(7 * HoursPerDay + 1),
     DateTime(7 * HoursPerDay + 2)}
IssueStates == {Str("open"), Str("closed")}
PullRequestMarkers == {None, [login |-> "pr"]}
StateArgs == {"all", "open", "closed"}

DummyIssue(number, state, closed_at, pr) ==
    [id |-> 100 + number, number |-> number, title |-> Str("Bug report"),
     user |-> [login |-> Str("alice")], state |-> state,
     created_at |-> IssueCreated, closed_at |-> closed_at,
     comments |-> number - 1, pull_request |-> pr]

\* The repository gains an issue or a pull request (numbers are unique).
open_issue ==
    /\ called = None
    /\ Len(repo._issues) < MaxIssues
    /\ \E s \in IssueStates, c \in IssueClosed, pr \in PullRequestMarkers :
         repo' = [repo EXCEPT !._issues =
                    Append(@, DummyIssue(Len(@) + 1, s, c, pr))]
    /\ UNCHANGED <<GITHUB_TOKEN, called, returned, commits_df, issues_df, stdout>>

fetch_issues ==
    /\ called = None
    /\ \E token \in Tokens, state \in StateArgs, max_issues \in MaxArgs :
         /\ GITHUB_TOKEN' = token
         /\ called' = [fn |-> "fetch_issues", state |-> state,
                       max |-> max_issues]
         /\ returned' =
              IF token = None
              THEN [raised |-> "KeyError"]
              ELSE [df |-> _conv_issues_to_record(
                              _get_issues_from_repo(repo, state, max_issues))]
    /\ UNCHANGED <<repo, commits_df, issues_df, stdout>>

---------------------------------------------------------------------------
(* The two fetches as programs: one call on a repository *)

EmptyRepo == [_commits |-> <<>>, _issues |-> <<>>]

InitFetch ==
    /\ GITHUB_TOKEN = None
    /\ repo = EmptyRepo
    /\ called = None
    /\ returned = None
    /\ commits_df = EmptyCommitRecords
    /\ issues_df = EmptyIssueRecords
    /\ stdout = <<>>

NextCommits == push_commit \/ fetch_commits

SpecCommits == InitFetch /\ [][NextCommits]_vars

NextIssues == open_issue \/ fetch_issues

SpecIssues == InitFetch /\ [][NextIssues]_vars

---------------------------------------------------------------------------
(* merge_and_summarize *)

\* pd.to_datetime(column, errors="coerce"): the Timestamp of a cell that is
\* an ISO-8601 string, NaT of any other cell.
to_datetime(series) ==
    [i \in 1..Len(series) |->
        IF "iso" \in DOMAIN series[i] THEN DateTime(series[i].iso) ELSE None]

\* pd.to_numeric(column, errors="coerce"): a cell that is a number, NaN of
\* any other cell.
to_numeric(series) ==
    [i \in 1..Len(series) |->
        IF "int" \in DOMAIN series[i] THEN series[i] ELSE None]

\* Series.fillna(value): only a missing cell is replaced.
fillna(series, value) ==
    [i \in 1..Len(series) |-> IF series[i] = None THEN value ELSE series[i]]

\* Series.dropna()
dropna(series) == SelectSeq(series, LAMBDA v : v # None)

\* The distinct values of a series, in the order they are first seen.
RECURSIVE unique(_, _)
unique(series, seen) ==
    IF series = <<>> THEN seen
    ELSE IF \E k \in 1..Len(seen) : seen[k] = Head(series)
         THEN unique(Tail(series), seen)
         ELSE unique(Tail(series), Append(seen, Head(series)))

RECURSIVE count_of(_, _)
count_of(series, v) ==
    IF series = <<>> THEN 0
    ELSE (IF Head(series) = v THEN 1 ELSE 0) + count_of(Tail(series), v)

Remove(seq, i) == SubSeq(seq, 1, i - 1) \o SubSeq(seq, i + 1, Len(seq))

\* A sort of the counts with the smallest first.
RECURSIVE sort_values_ascending(_, _)
sort_values_ascending(entries, ties) ==
    IF entries = <<>> THEN <<>>
    ELSE LET low == {i \in 1..Len(entries) :
                        \A k \in 1..Len(entries) :
                            entries[i].count <= entries[k].count}
             i == CHOOSE x \in low : \A y \in low : x <= y
         IN  <<entries[i]>> \o sort_values_ascending(Remove(entries, i), ties)

\* Series.sort_values(ascending=False) of the counts.  pandas leaves the
\* order of equal counts to the sorting algorithm: `ties` is "first" when
\* equal counts stay in first-seen order and "last" when they come out
\* reversed.
RECURSIVE sort_values(_, _)
sort_values(entries, ties) ==
    IF entries = <<>> THEN <<>>
    ELSE LET top == {i \in 1..Len(entries) :
                        \A k \in 1..Len(entries) :
                            entries[i].count >= entries[k].count}
             i == IF ties = "first"
                  THEN CHOOSE x \in top : \A y \in top : x <= y
                  ELSE CHOOSE x \in top : \A y \in top : x >= y
         IN  <<entries[i]>> \o sort_values(Remove(entries, i), ties)

\* Series.value_counts(): one entry per distinct non-missing value with the
\* number of its rows, sorted by that number, largest first.
value_counts(series, ties) ==
    LET values == unique(dropna(series), <<>>)
    IN  sort_values([k \in 1..Len(values) |->
                        [author |-> values[k],
                         count |-> count_of(series, values[k])]],
                    ties)

\* Series.head(n)
head(series, n) == SubSeq(series, 1, Min(n, Len(series)))

TopN == 5
Sentinel == Str("<unknown>")
TieOrders == {"first", "last"}

\* commits["author"].fillna("<unknown>").value_counts().head(5).to_dict():
\* an ordered mapping, here the sequence of its (author, count) items.
top_committers_of(commits, ties) ==
    head(value_counts(fillna(commits.author, Sentinel), ties), TopN)

RECURSIVE GCD(_, _)
GCD(a, b) == IF b = 0 THEN a ELSE GCD(b, a % b)

Abs(a) == IF a < 0 THEN -a ELSE a

\* a / b of two ints: a float, kept as the quotient in lowest terms.
true_div(a, b) ==
    IF b = 0
    THEN [raised |-> "ZeroDivisionError"]
    ELSE LET g == GCD(Abs(a), b)
         IN  [num |-> a \div g, den |-> b \div g]

RECURSIVE sum(_)
sum(series) ==
    IF series = <<>> THEN 0 ELSE Head(series).int + sum(Tail(series))

\* Series.mean(): NaN of an empty series.
mean(series) ==
    IF series = <<>> THEN [nan |-> TRUE]
    ELSE true_div(sum(series), Len(series))

\* int((issues["state"].fillna("") == "closed").sum())
closed_issues_of(issues) ==
    count_of(fillna(issues.state, Str("")), Str("closed"))

\* A close rate computed without looking at total_issues.
close_rate_unguarded(closed_issues, total_issues) ==
    true_div(closed_issues, total_issues)

\* close_rate: None unless total_issues > 0.
close_rate_of(closed_issues, total_issues) ==
    IF total_issues > 0
    THEN true_div(closed_issues, total_issues)
    ELSE None

\* The rows where both timestamps parsed, and their whole-day differences.
closed_mask(issues) ==
    [i \in 1..Len(issues.closed_at) |->
        issues.closed_at[i] # None /\ issues.created_at[i] # None]

durations(issues) ==
    LET rows == SelectSeq([i \in 1..Len(issues.closed_at) |-> i],
                          LAMBDA i : closed_mask(issues)[i])
    IN  [k \in 1..Len(rows) |->
            Int_(timedelta(issues.closed_at[rows[k]],
                           issues.created_at[rows[k]]).days)]

\* An average that falls back to the timestamps whenever the column
\* yields no number, present or not.
avg_open_days_falls_back(issues) ==
    LET odays == IF "open_duration_days" \in DOMAIN issues
                 THEN dropna(to_numeric(issues.open_duration_days))
                 ELSE <<>>
    IN  IF odays # <<>> THEN mean(odays)
        ELSE IF \E i \in 1..Len(issues.closed_at) : closed_mask(issues)[i]
             THEN mean(durations(issues))
             ELSE None

\* issues has created_at and closed_at already converted by to_datetime.
avg_open_days_of(issues) ==
    IF "open_duration_days" \in DOMAIN issues
    THEN LET odays == to_numeric(issues.open_duration_days)
         IN  IF dropna(odays) # <<>> THEN mean(dropna(odays)) ELSE None
    ELSE IF \E i \in 1..Len(issues.closed_at) : closed_mask(issues)[i]
         THEN mean(durations(issues))
         ELSE None

\* The lines printed for a summary.
printed(s) ==
    <<[text |-> "Top 5 committers:"]>>
    \o [k \in 1..Len(s.top_committers) |->
           [text |-> "{author}: {count}",
            author |-> s.top_committers[k].author,
            count |-> s.top_committers[k].count]]
    \o <<IF s.close_rate = None
         THEN [text |-> "No issues to compute close rate."]
         ELSE [text |-> "Issue close rate: {closed_issues}/{total_issues} = {close_rate:.2%}",
               closed_issues |-> s.closed_issues,
               total_issues |-> s.total_issues,
               close_rate |-> s.close_rate]>>
    \o <<IF s.avg_open_days = None
         THEN [text |-> "No closed issues to compute average open duration."]
         ELSE [text |-> "Average open duration (days) for closed issues: {avg_open_days:.2f}",
               avg_open_days |-> s.avg_open_days]>>

\* The summary of two tables; the tables themselves are copied, not changed.
summary_of(commits_in, issues_in, ties) ==
    LET commits == [commits_in EXCEPT !.date = to_datetime(@)]
        issues == [issues_in EXCEPT !.created_at = to_datetime(@),
                                    !.closed_at = to_datetime(@)]
        total_issues == Len(issues.state)
        closed_issues == closed_issues_of(issues)
    IN  [top_committers |-> top_committers_of(commits, ties),
         total_issues |-> total_issues,
         closed_issues |-> closed_issues,
         close_rate |-> close_rate_of(closed_issues, total_issues),
         avg_open_days |-> avg_open_days_of(issues)]

merge_and_summarize ==
    /\ called = None
    /\ \E ties \in TieOrders :
         LET s == summary_of(commits_df, issues_df, ties)
         IN  /\ called' = [fn |-> "merge_and_summarize"]
             /\ IF "raised" \in DOMAIN s.close_rate
                THEN /\ returned' = s.close_rate
                     /\ stdout' = <<>>
                ELSE /\ returned' = [summary |-> s]
                     /\ stdout' = printed(s)
    /\ UNCHANGED <<GITHUB_TOKEN, repo, commits_df, issues_df>>

\* The tables tried.  Author names are interchangeable (only their counts
\* and the order they are first seen in matter), so a new name is always
\* the first unused one of AuthorNames; a missing author and the empty
\* string can come at any row.
AuthorNames == <<"Alice", "Bob", "Carol", "Dave">>
AuthorCells(authors) ==
    LET used == Cardinality({k \in 1..Len(AuthorNames) :
                    \E i \in 1..Len(authors) : authors[i] = Str(AuthorNames[k])})
    IN  {None, Str("")}
        \cup {Str(AuthorNames[k]) : k \in 1..Min(used + 1, Len(AuthorNames))}

append_commit_row ==
    /\ called = None
    /\ Len(commits_df.author) < MaxCommitRows
    /\ \E a \in AuthorCells(commits_df.author) :
         commits_df' =
             [sha |-> Append(commits_df.sha,
                             Str("sha" \o ToString(Len(commits_df.sha) + 1))),
              author |-> Append(commits_df.author, a),
              email |-> Append(commits_df.email, Str("a@example.com")),
              date |-> Append(commits_df.date, isoformat(DateTime(0))),
              message |-> Append(commits_df.message, Str("Bug fix"))]
    /\ UNCHANGED <<GITHUB_TOKEN, repo, called, returned, issues_df, stdout>>

StateCells == {Str("open"), Str("closed"), None}
\* created_at and closed_at of a row: never closed, closed an hour short of
\* 2 days later, closed 7 days and 1 hour later, or created_at unreadable.
TimestampCells ==
    {[created_at |-> isoformat(DateTime(0)), closed_at |-> None],
     [created_at |-> isoformat(DateTime(0)),
      closed_at |-> isoformat(DateTime(2 * HoursPerDay - 1))],
     [created_at |-> isoformat(DateTime(0)),
      closed_at |-> isoformat(DateTime(7 * HoursPerDay + 1))],
     [created_at |-> Str("n/a"),
      closed_at |-> isoformat(DateTime(7 * HoursPerDay + 1))]}
DurationCells == {None, Int_(5), Int_(9), Str("n/a")}

\* One more row of the issue table, with a cell in every column it has.
append_issue_row ==
    /\ called = None
    /\ Len(issues_df.state) < MaxIssueRows
    /\ \E s \in StateCells, t \in TimestampCells, d \in DurationCells :
         LET n == Len(issues_df.state) + 1
             row == [id |-> 100 + n, number |-> n, title |-> Str("Bug report"),
                     user |-> Str("alice"), state |-> s,
                     created_at |-> t.created_at, closed_at |-> t.closed_at,
                     comments |-> 0, open_duration_days |-> d]
         IN  /\ ("open_duration_days" \notin DOMAIN issues_df) => (d = None)
             /\ issues_df' =
                    [c \in DOMAIN issues_df |-> Append(issues_df[c], row[c])]
    /\ UNCHANGED <<GITHUB_TOKEN, repo, called, returned, commits_df, stdout>>

\* Tables as the fetches return them: the commits of Alice and Bob, and an
\* issue closed after 7 days beside an open one.
BasicCommits ==
    _conv_commits_to_record(
        <<DummyCommit(Str("sha1"),
                      [name |-> Str("Alice"), email |-> Str("a@example.com")],
                      DateTime(0), Str("Initial commit\nDetails")),
          DummyCommit(Str("sha2"),
                      [name |-> Str("Bob"), email |-> Str("b@example.com")],
                      DateTime(-HoursPerDay), Str("Bug fix"))>>)

DurationIssues ==
    _conv_issues_to_record(
        <<DummyIssue(1, Str("closed"), DateTime(7 * HoursPerDay + 1), None),
          DummyIssue(2, Str("open"), None, None)>>)

\* An issue table without the open_duration_days column.
WithoutDurations(df) == [c \in DOMAIN df \ {"open_duration_days"} |-> df[c]]

InitSummary ==
    /\ GITHUB_TOKEN = None
    /\ repo = EmptyRepo
    /\ called = None
    /\ returned = None
    /\ stdout = <<>>

InitCommitSummary ==
    /\ InitSummary
    /\ commits_df = EmptyCommitRecords
    /\ issues_df = DurationIssues

InitIssueSummary ==
    /\ InitSummary
    /\ commits_df \in {EmptyCommitRecords, BasicCommits}
    /\ issues_df \in {EmptyIssueRecords, WithoutDurations(EmptyIssueRecords)}

NextCommitSummary == append_commit_row \/ merge_and_summarize
NextIssueSummary == append_issue_row \/ merge_and_summarize

SpecCommitSummary == InitCommitSummary /\ [][NextCommitSummary]_vars
SpecIssueSummary == InitIssueSummary /\ [][NextIssueSummary]_vars

---------------------------------------------------------------------------
(* Properties of the two fetches *)

CommitsFetched ==
    /\ called # None
    /\ called.fn = "fetch_commits"
    /\ "df" \in DOMAIN returned

IssuesFetched ==
    /\ called # None
    /\ called.fn = "fetch_issues"
    /\ "df" \in DOMAIN returned

\* What the collaborator lists for the call's state argument, and the
\* items of it that carry no pull-request marker.
Listed == get_issues(repo, called.state)
Unmarked(raw) == SelectSeq(raw, LAMBDA i : i.pull_request = None)
Marked(raw) == {i \in 1..Len(raw) : raw[i].pull_request # None}

\* Row j of the table is issue `issue`.
IsRowOf(df, j, issue) ==
    /\ df.id[j] = issue.id
    /\ df.number[j] = issue.number
    /\ df.title[j] = issue.title
    /\ df.user[j] = issue.user.login
    /\ df.state[j] = issue.state
    /\ df.comments[j] = issue.comments
    /\ df.created_at[j] = [iso |-> issue.created_at.hours]

IssueColumns ==
    {"id", "number", "title", "user", "state", "created_at", "closed_at",
     "comments", "open_duration_days"}

\* C1: fetch_issues without a max over N listed items of which K carry a
\* pull-request marker returns exactly N-K rows: the unmarked items, in
\* their order, and no row of a marked item.
C1_PullRequestsSkipped ==
    (IssuesFetched /\ called.max = None) =>
        LET raw == Listed
            N == Len(raw)
            K == Cardinality(Marked(raw))
            df == returned.df
        IN  /\ DOMAIN df = IssueColumns
            /\ \A c \in DOMAIN df : Len(df[c]) = N - K
            /\ \A j \in 1..(N - K) : IsRowOf(df, j, Unmarked(raw)[j])
            /\ \A j \in 1..(N - K), i \in Marked(raw) :
                   df.number[j] # raw[i].number

\* A pull request between two issues was listed and only the issues, in
\* order, came back.
C1_Witness ==
    /\ IssuesFetched /\ called.max = None /\ called.state = "all"
    /\ Len(repo._issues) = 3
    /\ Marked(repo._issues) = {2}
    /\ returned.df.number = <<1, 3>>

CommitColumns == {"sha", "author", "email", "date", "message"}

\* C2: fetch_commits over N commits returns min(N, M) rows for a maximum
\* M >= 0 and N rows without a maximum; row i is commit i, and the five
\* columns all have that length (also when N = 0).
C2_CommitRows ==
    /\ (called # None /\ called.fn = "fetch_commits" /\ GITHUB_TOKEN # None)
           => "df" \in DOMAIN returned
    /\ (CommitsFetched /\ (called.max = None \/ called.max.int >= 0)) =>
        LET raw == repo._commits
            N == Len(raw)
            n == IF called.max = None THEN N
                 ELSE IF N <= called.max.int THEN N ELSE called.max.int
            df == returned.df
        IN  /\ DOMAIN df = CommitColumns
            /\ \A c \in DOMAIN df : Len(df[c]) = n
            /\ \A i \in 1..n :
                 /\ df.sha[i] = raw[i].sha
                 /\ df.author[i] = raw[i].commit.author.name
                 /\ df.email[i] = raw[i].commit.author.email
                 /\ df.date[i] = [iso |-> raw[i].commit.author.date.hours]
                 /\ df.message[i] = raw[i].commit.message

\* Three commits, a maximum of two: the first two came back in order.
C2_Witness ==
    /\ CommitsFetched
    /\ called.max = Int_(2)
    /\ Len(repo._commits) = 3
    /\ returned.df.sha = <<Str("sha1"), Str("sha2")>>
    /\ returned.df.author[1] # returned.df.author[2]

\* The items the normalizer was given by the call.
Given == _get_issues_from_repo(repo, called.state, called.max)

\* C3: in every row of the issue table closed_at is null exactly when
\* open_duration_days is null, and an issue whose closed_at is null gets a
\* null open_duration_days, whatever its state.
C3_ClosedIffDuration ==
    IssuesFetched =>
        LET df == returned.df
            rows == Unmarked(Given)
        IN  /\ Len(df.closed_at) = Len(rows)
            /\ Len(df.open_duration_days) = Len(rows)
            /\ \A j \in 1..Len(rows) :
                 /\ (df.closed_at[j] = None) <=> (df.open_duration_days[j] = None)
                 /\ (rows[j].closed_at = None) => (df.open_duration_days[j] = None)
                 /\ (rows[j].closed_at # None) =>
                        df.closed_at[j] = [iso |-> rows[j].closed_at.hours]

\* A row in state "closed" without closed_at (null duration) beside a row in
\* state "open" with closed_at (a duration).
C3_Witness ==
    /\ IssuesFetched
    /\ Len(returned.df.state) = 2
    /\ returned.df.state = <<Str("closed"), Str("open")>>
    /\ returned.df.closed_at[1] = None
    /\ returned.df.open_duration_days[1] = None
    /\ returned.df.closed_at[2] # None
    /\ returned.df.open_duration_days[2] # None

\* C4: for an issue with closed_at set, open_duration_days is the floor of
\* closed_at - created_at in days: the integer d with
\* d days <= closed_at - created_at < d + 1 days.
C4_FloorDays ==
    IssuesFetched =>
        LET df == returned.df
            rows == Unmarked(Given)
        IN  \A j \in 1..Len(rows) :
                (rows[j].closed_at # None) =>
                    LET h == rows[j].closed_at.hours - rows[j].created_at.hours
                    IN  /\ "int" \in DOMAIN df.open_duration_days[j]
                        /\ df.open_duration_days[j].int * HoursPerDay <= h
                        /\ h < (df.open_duration_days[j].int + 1) * HoursPerDay

\* Exactly 7 days gives 7, and 7 days and 1 hour gives 7 too.
C4_Witness ==
    /\ IssuesFetched
    /\ \E j, k \in 1..Len(Unmarked(Given)) :
         /\ Unmarked(Given)[j].closed_at # None
         /\ Unmarked(Given)[k].closed_at # None
         /\ Unmarked(Given)[j].closed_at.hours - IssueCreated.hours
                = 7 * HoursPerDay
         /\ Unmarked(Given)[k].closed_at.hours - IssueCreated.hours
                = 7 * HoursPerDay + 1
         /\ returned.df.open_duration_days[j] = Int_(7)
         /\ returned.df.open_duration_days[k] = Int_(7)

\* C5: a fetch asked for a negative maximum raises and returns no table.
C5_NegativeMaxRaises ==
    (called # None /\ called.max # None /\ called.max.int < 0) =>
        "raised" \in DOMAIN returned

\* C10: fetch_issues with a maximum M >= 0 returns the unmarked items among
\* the first min(N, M) listed items, in order; so the row count is min(N, M)
\* less the pull requests among those first items.
C10_CapBeforeFilter ==
    (IssuesFetched /\ called.max # None /\ called.max.int >= 0) =>
        LET raw == Listed
            N == Len(raw)
            M == called.max.int
            first == SubSeq(raw, 1, IF N <= M THEN N ELSE M)
            df == returned.df
        IN  /\ \A c \in DOMAIN df : Len(df[c]) = Len(first) - Cardinality(Marked(first))
            /\ \A j \in 1..Len(Unmarked(first)) : IsRowOf(df, j, Unmarked(first)[j])

\* A pull request and then two issues listed, a maximum of 2: one row,
\* although the source holds two issues.
C10_Witness ==
    /\ IssuesFetched /\ called.max = Int_(2) /\ called.state = "all"
    /\ Len(repo._issues) = 3
    /\ Marked(repo._issues) = {1}
    /\ returned.df.number = <<2>>

---------------------------------------------------------------------------
(* Properties of merge_and_summarize *)

Summarized == called # None /\ called.fn = "merge_and_summarize"
SummaryReturned == Summarized /\ "summary" \in DOMAIN returned

RECURSIVE SetSum(_, _)
SetSum(S, val) ==
    IF S = {} THEN 0
    ELSE LET x == CHOOSE y \in S : TRUE
         IN  val[x] + SetSum(S \ {x}, val)

\* C6: merge_and_summarize returns total_issues = the number of rows,
\* closed_issues = the number of rows whose state is "closed", and
\* close_rate = closed_issues / total_issues when there are rows; for a
\* table of zero rows it returns close_rate = null and avg_open_days = null
\* and does not raise.
C6_CloseRate ==
    Summarized =>
        /\ "summary" \in DOMAIN returned
        /\ LET s == returned.summary
               n == Len(issues_df.state)
               closed == Cardinality({i \in 1..n : issues_df.state[i] = Str("closed")})
           IN  /\ s.total_issues = n
               /\ s.closed_issues = closed
               /\ (n > 0) =>
                     /\ "num" \in DOMAIN s.close_rate
                     /\ s.close_rate.den > 0
                     /\ s.close_rate.num * n = closed * s.close_rate.den
               /\ (n = 0) =>
                     /\ s.close_rate = None
                     /\ s.avg_open_days = None

\* An issue table of zero rows was summarised: both metrics are null and
\* the "no data" sentences were printed.
C6_Witness ==
    /\ SummaryReturned
    /\ Len(issues_df.state) = 0
    /\ "open_duration_days" \in DOMAIN issues_df
    /\ returned.summary.total_issues = 0
    /\ returned.summary.close_rate = None
    /\ returned.summary.avg_open_days = None
    /\ stdout[Len(stdout) - 1] = [text |-> "No issues to compute close rate."]

\* C7: top_committers has min(5, number of distinct authors) entries, each
\* with the number of commit rows of its author (a missing author counting
\* as "<unknown>"), in non-increasing order of count, and no author left
\* out has more commits than an author included.
C7_TopCommitters ==
    SummaryReturned =>
        LET tc == returned.summary.top_committers
            authors == commits_df.author
            key == [i \in 1..Len(authors) |->
                       IF authors[i] = None THEN Str("<unknown>") ELSE authors[i]]
            keys == {key[i] : i \in 1..Len(authors)}
            rows(k) == Cardinality({i \in 1..Len(authors) : key[i] = k})
            inTop == {tc[j].author : j \in 1..Len(tc)}
        IN  /\ Len(tc) <= 5
            /\ Len(tc) = (IF Cardinality(keys) <= 5 THEN Cardinality(keys) ELSE 5)
            /\ Cardinality(inTop) = Len(tc)
            /\ inTop \subseteq keys
            /\ \A j \in 1..Len(tc) : tc[j].count = rows(tc[j].author)
            /\ \A j \in 1..(Len(tc) - 1) : tc[j].count >= tc[j + 1].count
            /\ \A k \in keys \ inTop : \A j \in 1..Len(tc) :
                   rows(k) <= tc[j].count

\* Seven commits of six authors: five entries, the author of two commits
\* first, and one author of a single commit left out.
C7_Witness ==
    /\ SummaryReturned
    /\ Len(commits_df.author) = 7
    /\ Cardinality({commits_df.author[i] : i \in 1..7}) = 6
    /\ commits_df.author[6] = commits_df.author[7]
    /\ Len(returned.summary.top_committers) = 5
    /\ returned.summary.top_committers[1] =
           [author |-> commits_df.author[7], count |-> 2]
    /\ returned.summary.top_committers[5].count = 1

\* C8: avg_open_days is the mean of the numbers in open_duration_days when
\* the column is present and holds one; with the column absent it is the
\* mean of the whole-day differences closed_at - created_at of the rows
\* where both timestamps parsed; it is null when there is no such value,
\* also for a present column without a number.
C8_AvgOpenDays ==
    SummaryReturned =>
        LET avg == returned.summary.avg_open_days
            n == Len(issues_df.state)
            present == "open_duration_days" \in DOMAIN issues_df
            idx == IF present
                   THEN {i \in 1..n : "int" \in DOMAIN issues_df.open_duration_days[i]}
                   ELSE {i \in 1..n : /\ "iso" \in DOMAIN issues_df.created_at[i]
                                      /\ "iso" \in DOMAIN issues_df.closed_at[i]}
            val == [i \in idx |->
                      IF present
                      THEN issues_df.open_duration_days[i].int
                      ELSE LET h == issues_df.closed_at[i].iso
                                    - issues_df.created_at[i].iso
                           IN  CHOOSE d \in (-1)..8 :
                                   d * 24 <= h /\ h < (d + 1) * 24]
        IN  /\ (idx = {}) => (avg = None)
            /\ (idx # {}) =>
                   /\ "num" \in DOMAIN avg
                   /\ avg.den > 0
                   /\ avg.num * Cardinality(idx) = avg.den * SetSum(idx, val)

\* Durations 5 and 9 beside timestamps a day apart: the mean is 7, taken
\* from the column.
C8_Witness ==
    /\ SummaryReturned
    /\ "open_duration_days" \in DOMAIN issues_df
    /\ issues_df.open_duration_days = <<Int_(5), Int_(9)>>
    /\ issues_df.created_at[1] = [iso |-> 0]
    /\ issues_df.closed_at[1] = [iso |-> 2 * HoursPerDay - 1]
    /\ returned.summary.avg_open_days = [num |-> 7, den |-> 1]

\* C9: no key of top_committers is the empty string or null, and the rows
\* whose author is missing or the empty string are the rows counted under
\* "<unknown>".
C9_EmptyAuthorUnderSentinel ==
    SummaryReturned =>
        LET tc == returned.summary.top_committers
            authors == commits_df.author
            unknown == {i \in 1..Len(authors) :
                           authors[i] = None \/ authors[i] = Str("")}
        IN  /\ \A j \in 1..Len(tc) :
                   /\ tc[j].author # Str("")
                   /\ tc[j].author # None
            /\ (unknown # {}) =>
                   \E j \in 1..Len(tc) :
                       /\ tc[j].author = Str("<unknown>")
                       /\ tc[j].count = Cardinality(unknown)

====
